---- MODULE Spec2Model ----
(***************************************************************************)
(* Model of src/app.py: the Flask application of the dementia screening    *)
(* demo.  One process imports the module (app, after_request, r, the       *)
(* route) and then serves POST /analyze requests; every request runs the   *)
(* handler analyze() and the after_request hook.                           *)
(*                                                                         *)
(* Numbers.  Sample positions and word counts are integers.  A duration    *)
(* or a pause in seconds is an exact fraction <<p, q>> (p/q, q > 0); the   *)
(* code computes the same quantities in float64, so the model is exact     *)
(* where the code is within one rounding error.  A transcript is the       *)
(* sequence of its characters.                                             *)
(***************************************************************************)
EXTENDS Integers, Sequences, FiniteSets, TLC

\* ---------------------------------------------------------------- bounds
NumReqs == 2        \* requests in flight at the same time
MaxChars == 3       \* characters of a transcript (SpecMetrics)
MaxFrames == 3      \* frames of a decoded clip (SpecMetrics)
MaxWpm == 150       \* words_per_minute values of the rate family (SpecMetrics)
MaxK == 3           \* non-silent stretches of a clip (SpecMetrics)

Reqs == 1..NumReqs

VARIABLES
    r,              \* the module-level Recognizer: 0 before the import, else its identity
    recognizers,    \* how many Recognizer instances were constructed so far
    pc,             \* pc[q]: where request q's handling stands
    files,          \* files[q]: what request.files holds under 'audio'
    loc,            \* loc[q]: the local variables of analyze() assigned so far
    used,           \* used[q]: the Recognizer request q transcribed with (0: none)
    calls,          \* calls[q]: the pipeline steps request q started, in order
    raised,         \* raised[q]: the type of the exception request q's try block caught
    resp            \* resp[q]: the response of request q (status 0: none yet)

vars == <<r, recognizers, pc, files, loc, used, calls, raised, resp>>

\* ------------------------------------------------------------- fractions
Frac(p, q) == <<p, q>>
\* p/q > a/b, for q, b > 0
FracGt(f, a, b) == f[1] * b > a * f[2]
FracEq(f, a, b) == f[1] * b = a * f[2]

\* Python's round() of the fraction n/d (n >= 0, d > 0): to nearest, ties to even
RoundHalfEven(n, d) ==
    LET q == n \div d
        m == n % d
    IN  IF 2 * m < d THEN q
        ELSE IF 2 * m > d THEN q + 1
        ELSE IF q % 2 = 0 THEN q ELSE q + 1

\* how often x occurs in the sequence s
Count(s, x) == Cardinality({i \in 1..Len(s) : s[i] = x})

\* ---------------------------------------------------------- local values
NoLocals == << >>
Assign(l, name, val) == (name :> val) @@ l

NoResponse == [status |-> 0, body |-> << >>, headers |-> {}]

\* jsonify(...), status: a response that has not passed after_request yet
jsonify(body, status) == [status |-> status, body |-> body, headers |-> {}]

\* ------------------------------------------------------------ text (str)
IsSpace(c) == c = " "

\* str.split(): the maximal runs of non-space characters, in order
RECURSIVE SplitFrom(_, _, _)
SplitFrom(s, i, cur) ==
    LET flush == IF cur = << >> THEN << >> ELSE <<cur>>
    IN  IF i > Len(s) THEN flush
        ELSE IF IsSpace(s[i]) THEN flush \o SplitFrom(s, i + 1, << >>)
        ELSE SplitFrom(s, i + 1, Append(cur, s[i]))

split(s) == SplitFrom(s, 1, << >>)

LowerChar(c) == IF c = "A" THEN "a" ELSE IF c = "B" THEN "b" ELSE c

\* str.lower()
lower(s) == [i \in 1..Len(s) |-> LowerChar(s[i])]

\* len(set(transcript.lower().split()))
UniqueWords(transcript) ==
    LET toks == split(lower(transcript))
    IN  Cardinality({toks[i] : i \in 1..Len(toks)})

\* round(unique_words / word_count * 100, 1) if word_count > 0 else 0,
\* in tenths of a percent; kind tells the float of round() from the int 0
LexicalRichness(unique_words, word_count) ==
    IF word_count > 0
    THEN [kind |-> "float", tenths |-> RoundHalfEven(unique_words * 1000, word_count)]
    ELSE [kind |-> "int", tenths |-> 0]

\* --------------------------------------------------------------- metrics
\* WordsPerMinute with a clip of no duration counted as one second long
WordsPerMinuteFloor(word_count, p, q) ==
    IF p > 0
    THEN RoundHalfEven(word_count * 60 * q, p)
    ELSE word_count * 60

\* total_duration = frames / sample_rate seconds; duration_minutes = that / 60;
\* round(word_count / duration_minutes) if duration_minutes > 0 else 0,
\* for a duration of p/q seconds
WordsPerMinute(word_count, p, q) ==
    IF p > 0
    THEN RoundHalfEven(word_count * 60 * q, p)
    ELSE 0

\* the loop of analyze_audio_features: the gaps (in samples) between the end of
\* interval i and the start of interval i+1 that last more than 0.1 s
RECURSIVE PausesFrom(_, _, _)
PausesFrom(iv, sr, i) ==
    IF i > Len(iv) - 1 THEN << >>
    ELSE LET gap == iv[i + 1][1] - iv[i][2]
         IN  (IF gap * 10 > sr THEN <<gap>> ELSE << >>) \o PausesFrom(iv, sr, i + 1)

RECURSIVE SumSeq(_)
SumSeq(s) == IF s = << >> THEN 0 ELSE Head(s) + SumSeq(Tail(s))


\* MeanPause dividing by the number of gaps instead of the number of pauses kept
MeanPauseAllGaps(non_silent_intervals, sr_librosa) ==
    LET pauses == PausesFrom(non_silent_intervals, sr_librosa, 1)
    IN  IF pauses = << >> THEN Frac(0, 1)
        ELSE Frac(SumSeq(pauses), (Len(non_silent_intervals) - 1) * sr_librosa)

\* lines 41-54 of analyze_audio_features: 0.0 without pauses, else
\* np.mean(pauses), in seconds
MeanPause(non_silent_intervals, sr_librosa) ==
    LET pauses == PausesFrom(non_silent_intervals, sr_librosa, 1)
    IN  IF pauses = << >> THEN Frac(0, 1)
        ELSE Frac(SumSeq(pauses), Len(pauses) * sr_librosa)

\* ------------------------------------------------------------ classifier
SuggestLow == "All indicators are within the normal range. Please continue to maintain a healthy lifestyle."
SuggestMedium == "Some indicators show slight abnormalities. We recommend that you keep monitoring and consider regular check-ups."
SuggestHigh == "Significant linguistic abnormalities have been detected. We strongly recommend consulting a doctor for a comprehensive evaluation."
SuggestPause == "Your speaking rate is normal, but with slightly longer pauses. We recommend that you keep monitoring and consider regular check-ups."

\* RateRisk with the upper limit of Medium Risk included
RateRiskInclusive(words_per_minute) ==
    IF words_per_minute <= 140 /\ words_per_minute >= 100
    THEN [risk |-> "Medium Risk", risk_suggestion |-> SuggestMedium]
    ELSE IF words_per_minute < 100
    THEN [risk |-> "High Risk", risk_suggestion |-> SuggestHigh]
    ELSE [risk |-> "Low Risk", risk_suggestion |-> SuggestLow]

\* the rate rules, lines 112-120
RateRisk(words_per_minute) ==
    IF words_per_minute < 140 /\ words_per_minute >= 100
    THEN [risk |-> "Medium Risk", risk_suggestion |-> SuggestMedium]
    ELSE IF words_per_minute < 100
    THEN [risk |-> "High Risk", risk_suggestion |-> SuggestHigh]
    ELSE [risk |-> "Low Risk", risk_suggestion |-> SuggestLow]

\* Classify with a pause rule that does not look at the tier
ClassifyPauseFirst(words_per_minute, avg_pause_duration) ==
    IF FracGt(avg_pause_duration, 9, 10)
    THEN [risk |-> "Medium Risk", risk_suggestion |-> SuggestPause]
    ELSE RateRisk(words_per_minute)

\* the rate rules followed by the pause rule, lines 112-124
Classify(words_per_minute, avg_pause_duration) ==
    LET byRate == RateRisk(words_per_minute)
    IN  IF FracGt(avg_pause_duration, 9, 10) /\ byRate.risk = "Low Risk"
        THEN [risk |-> "Medium Risk", risk_suggestion |-> SuggestPause]
        ELSE byRate

\* ------------------------------------------------------------- responses
\* the six-field record of lines 128-135; f"{x:.2f}" is kept in hundredths
SuccessBody(l) ==
    [speakingRate |-> <<l.words_per_minute, " WPM">>,
     pauseDuration |-> <<RoundHalfEven(100 * l.avg_pause_duration[1], l.avg_pause_duration[2]), " s">>,
     lexicalRichness |-> <<l.lexical_richness, "%">>,
     riskLevel |-> l.risk,
     suggestion |-> l.risk_suggestion,
     transcript |-> l.transcript]

Exc(type, msg) == [type |-> type, msg |-> msg]

\* HandleException answering an unexpected failure with a placeholder result
HandleExceptionPlaceholder(e) ==
    IF e.type = "UnknownValueError"
    THEN jsonify([error |-> "Speech recognition could not understand audio"], 400)
    ELSE IF e.type = "RequestError"
    THEN jsonify([error |-> <<"Speech recognition service error; ", e.msg>>], 500)
    ELSE jsonify([error |-> "An internal error occurred", riskLevel |-> "Unknown"], 500)

\* the except clauses, lines 137-143
HandleException(e) ==
    IF e.type = "UnknownValueError"
    THEN jsonify([error |-> "Speech recognition could not understand audio"], 400)
    ELSE IF e.type = "RequestError"
    THEN jsonify([error |-> <<"Speech recognition service error; ", e.msg>>], 500)
    ELSE jsonify([error |-> "An internal error occurred"], 500)

CorsHeaders ==
    {<<"Access-Control-Allow-Origin", "*">>,
     <<"Access-Control-Allow-Headers", "Content-Type,Authorization">>,
     <<"Access-Control-Allow-Methods", "GET,PUT,POST,DELETE,OPTIONS">>}

\* after_request decorating successful responses only
after_request_ok_only(response) ==
    IF response.status = 200
    THEN [response EXCEPT !.headers = @ \cup CorsHeaders]
    ELSE response

\* the after_request hook, lines 15-24
after_request(response) ==
    [response EXCEPT !.headers = @ \cup CorsHeaders]

\* ---------------------------------------------------------------- inputs
NoFile == [kind |-> "none", frames |-> 0, rate |-> 0, channels |-> 0, loud |-> << >>]
Absent == [kind |-> "absent", frames |-> 0, rate |-> 0, channels |-> 0, loud |-> << >>]
Blob(kind) == [kind |-> kind, frames |-> 0, rate |-> 0, channels |-> 0, loud |-> << >>]

\* an upload that decodes: so many frames at so many frames per second on so
\* many channels; loud lists the stretches <<start, end>> (in frames) that are
\* within 20 dB of the peak, which is what the silence detection finds
Clip(frames, rate, channels, loud) ==
    [kind |-> "audio", frames |-> frames, rate |-> rate, channels |-> channels,
     loud |-> loud]

\* what a request can carry: no 'audio' part, an empty or unparseable blob, a clip
Uploads == {Absent, Blob("empty"), Blob("garbage"),
            Clip(0, 1, 1, << >>),
            Clip(3, 1, 2, <<(<<0, 1>>), (<<2, 3>>)>>),
            Clip(3, 4, 1, <<(<<0, 1>>), (<<2, 3>>)>>)}

\* what the recognition service can answer
ServiceTranscripts == {<< >>, <<"a", " ", "A">>}

\* the lists of at most k stretches <<start, end>> with lo <= start < end <= n,
\* in order, disjoint and not adjacent
RECURSIVE IntervalLists(_, _, _)
IntervalLists(lo, n, k) ==
    IF k = 0 THEN {<< >>}
    ELSE {<< >>} \cup
         UNION {UNION {{<<(<<s, e>>)>> \o rest : rest \in IntervalLists(e + 1, n, k - 1)}
                       : e \in (s + 1)..n} : s \in lo..(n - 1)}

\* numpy arrays: sf.read gives shape (frames,) for one channel and
\* (frames, channels) else; the content is known by its loud stretches
Array(shape, loud) == [shape |-> shape, loud |-> loud]
sf_read(w) ==
    Array(IF w.channels > 1 THEN <<w.frames, w.channels>> ELSE <<w.frames>>, w.loud)
ndim(a) == Len(a.shape)
\* audio_data.mean(axis=1)
MeanAxis1(a) == Array(<<a.shape[1]>>, a.loud)
\* the last axis is the time axis of librosa
Samples(a) == a.shape[Len(a.shape)]
\* librosa.get_duration(y=audio_data, sr=sample_rate), in seconds
get_duration(a, sample_rate) == Frac(Samples(a), sample_rate)
\* librosa.effects.split(audio_data, top_db=20)
librosa_split(a) == a.loud

analyze_audio_features(audio_data, sr_librosa) ==
    MeanPause(librosa_split(audio_data), sr_librosa)

\* --------------------------------------------------------------- actions
Init ==
    /\ r = 0
    /\ recognizers = 0
    /\ pc = [q \in Reqs |-> "new"]
    /\ files = [q \in Reqs |-> NoFile]
    /\ loc = [q \in Reqs |-> NoLocals]
    /\ used = [q \in Reqs |-> 0]
    /\ calls = [q \in Reqs |-> << >>]
    /\ raised = [q \in Reqs |-> "none"]
    /\ resp = [q \in Reqs |-> NoResponse]

\* the import of the module: app, the hook, r = sr.Recognizer() (line 29), the route
Startup ==
    /\ r = 0
    /\ recognizers' = recognizers + 1
    /\ r' = recognizers + 1
    /\ UNCHANGED <<pc, files, loc, used, calls, raised, resp>>

\* leave analyze() with a response: its locals are gone, after_request is next
Return(q, response) ==
    /\ resp' = [resp EXCEPT ![q] = response]
    /\ loc' = [loc EXCEPT ![q] = NoLocals]
    /\ pc' = [pc EXCEPT ![q] = "after_request"]

\* an exception inside the try block: the except clauses answer
Raise(q, e) ==
    /\ raised' = [raised EXCEPT ![q] = e.type]
    /\ Return(q, HandleException(e))

\* a step of analyze() that goes on to the next one
Goto(q, next, locals) ==
    /\ pc' = [pc EXCEPT ![q] = next]
    /\ loc' = [loc EXCEPT ![q] = locals]
    /\ UNCHANGED <<resp, raised>>

Log(q, step) == calls' = [calls EXCEPT ![q] = Append(@, step)]

\* Begin without the check of request.files
BeginUnchecked(q) ==
    /\ r # 0
    /\ pc[q] = "new"
    /\ \E upload \in Uploads :
        /\ files' = [files EXCEPT ![q] = upload]
        /\ Goto(q, "decode", Assign(loc[q], "audio_file", upload))
    /\ UNCHANGED <<r, recognizers, used, calls>>

\* lines 58-63: a request arrives; without an 'audio' part it is answered at once
Begin(q) ==
    /\ r # 0
    /\ pc[q] = "new"
    /\ \E upload \in Uploads :
        /\ files' = [files EXCEPT ![q] = upload]
        /\ IF upload.kind = "absent"
           THEN /\ Return(q, jsonify([error |-> "No audio file provided"], 400))
                /\ UNCHANGED raised
           ELSE Goto(q, "decode", Assign(loc[q], "audio_file", upload))
    /\ UNCHANGED <<r, recognizers, used, calls>>

\* lines 68-73: AudioSegment.from_file and the export to WAV
Decode(q) ==
    /\ pc[q] = "decode"
    /\ Log(q, "decode")
    /\ LET f == loc[q].audio_file
       IN  IF f.kind # "audio"
           THEN Raise(q, Exc("CouldntDecodeError", "Decoding failed"))
           ELSE \/ Goto(q, "transcribe", Assign(loc[q], "wav_io", f))
                \/ Raise(q, Exc("Exception", "export"))
    /\ UNCHANGED <<r, recognizers, files, used>>

\* Transcribe trying once more after a first service error
TranscribeRetry(q) ==
    /\ pc[q] = "transcribe"
    /\ Log(q, "transcribe")
    /\ used' = [used EXCEPT ![q] = r]
    /\ \/ \E t \in ServiceTranscripts :
            Goto(q, "count", Assign(loc[q], "transcript", t))
       \/ Raise(q, Exc("UnknownValueError", ""))
       \/ IF Count(calls[q], "transcribe") = 0
          THEN Goto(q, "transcribe", loc[q])
          ELSE Raise(q, Exc("RequestError", "recognition connection failed"))
       \/ Raise(q, Exc("Exception", "record"))
    /\ UNCHANGED <<r, recognizers, files>>

\* lines 77-81: r.record and r.recognize_google, with the module's Recognizer
Transcribe(q) ==
    /\ pc[q] = "transcribe"
    /\ Log(q, "transcribe")
    /\ used' = [used EXCEPT ![q] = r]
    /\ \/ \E t \in ServiceTranscripts :
            Goto(q, "count", Assign(loc[q], "transcript", t))
       \/ Raise(q, Exc("UnknownValueError", ""))
       \/ Raise(q, Exc("RequestError", "recognition connection failed"))
       \/ Raise(q, Exc("Exception", "record"))
    /\ UNCHANGED <<r, recognizers, files>>

\* line 83
CountWords(q) ==
    /\ pc[q] = "count"
    /\ Log(q, "aggregate")
    /\ Goto(q, "read", Assign(loc[q], "word_count", Len(split(loc[q].transcript))))
    /\ UNCHANGED <<r, recognizers, files, used>>

\* lines 87-101: sf.read, the reduction to one channel, the duration, the rate
ReadWave(q) ==
    /\ pc[q] = "read"
    /\ Log(q, "read")
    /\ LET raw == sf_read(loc[q].wav_io)
           audio_data == IF ndim(raw) > 1 THEN MeanAxis1(raw) ELSE raw
           sample_rate == loc[q].wav_io.rate
           total_duration == get_duration(audio_data, sample_rate)
           l1 == Assign(loc[q], "audio_data", audio_data)
           l2 == Assign(l1, "sample_rate", sample_rate)
           l3 == Assign(l2, "total_duration", total_duration)
           l4 == Assign(l3, "words_per_minute",
                        WordsPerMinute(loc[q].word_count, total_duration[1], total_duration[2]))
       IN  \/ Goto(q, "pauses", l4)
           \/ Raise(q, Exc("Exception", "sf.read"))
    /\ UNCHANGED <<r, recognizers, files, used>>

\* line 104: analyze_audio_features(audio_data, sample_rate)
Pauses(q) ==
    /\ pc[q] = "pauses"
    /\ Log(q, "segment")
    /\ \/ Goto(q, "lexical",
               Assign(loc[q], "avg_pause_duration",
                      analyze_audio_features(loc[q].audio_data, loc[q].sample_rate)))
       \/ Raise(q, Exc("Exception", "librosa"))
    /\ UNCHANGED <<r, recognizers, files, used>>

\* lines 107-108
Lexical(q) ==
    /\ pc[q] = "lexical"
    /\ LET l1 == Assign(loc[q], "unique_words", UniqueWords(loc[q].transcript))
       IN  Goto(q, "classify",
                Assign(l1, "lexical_richness",
                       LexicalRichness(l1.unique_words, loc[q].word_count)))
    /\ UNCHANGED <<r, recognizers, files, used, calls>>

\* lines 112-124
ClassifyRisk(q) ==
    /\ pc[q] = "classify"
    /\ Log(q, "classify")
    /\ LET c == Classify(loc[q].words_per_minute, loc[q].avg_pause_duration)
       IN  Goto(q, "respond",
                Assign(Assign(loc[q], "risk", c.risk), "risk_suggestion", c.risk_suggestion))
    /\ UNCHANGED <<r, recognizers, files, used>>

\* lines 128-135
Respond(q) ==
    /\ pc[q] = "respond"
    /\ Return(q, jsonify(SuccessBody(loc[q]), 200))
    /\ UNCHANGED <<r, recognizers, files, used, calls, raised>>

\* lines 15-24: the hook runs on the response, which is then sent
AfterRequest(q) ==
    /\ pc[q] = "after_request"
    /\ resp' = [resp EXCEPT ![q] = after_request(@)]
    /\ pc' = [pc EXCEPT ![q] = "sent"]
    /\ UNCHANGED <<r, recognizers, files, loc, used, calls, raised>>

Next ==
    \/ Startup
    \/ \E q \in Reqs :
        \/ Begin(q)
        \/ Decode(q)
        \/ Transcribe(q)
        \/ CountWords(q)
        \/ ReadWave(q)
        \/ Pauses(q)
        \/ Lexical(q)
        \/ ClassifyRisk(q)
        \/ Respond(q)
        \/ AfterRequest(q)

Spec == Init /\ [][Next]_vars

\* ------------------------------------------- the metrics of one request
\* SpecMetrics follows one request from the first line after the transcription
\* (line 83) to its response, for three families of clips and transcripts.

Alphabet == {"a", "A", "b", " "}

RECURSIVE Strings(_)
Strings(n) ==
    IF n = 0 THEN {<< >>}
    ELSE LET shorter == Strings(n - 1)
         IN  shorter \cup {Append(t, c) : t \in shorter, c \in Alphabet}

\* every short transcript over every short clip
TextInputs ==
    UNION {{<<Clip(n, rate, ch, loud), t>> :
               rate \in {1, 2}, ch \in {1, 2},
               loud \in IntervalLists(0, n, MaxK), t \in Strings(MaxChars)}
           : n \in 0..MaxFrames}

\* chains of at most k stretches of one or two frames from frame start on,
\* separated by 1, 2, 3 or 24 silent frames
RECURSIVE Chains(_, _)
Chains(start, k) ==
    IF k = 0 THEN {<< >>}
    ELSE {<< >>} \cup
         UNION {{<<(<<start, end>>)>> \o rest :
                    rest \in UNION {Chains(end + g, k - 1) : g \in {1, 2, 3, 24}}}
                : end \in {start + 1, start + 2}}

EndOf(loud) == IF loud = << >> THEN 0 ELSE loud[Len(loud)][2]

\* clips of 10 or 20 frames per second: a frame lasts 0.1 s or 0.05 s
PauseInputs ==
    {<<Clip(EndOf(loud), rate, 1, loud), <<"a", " ", "b">> >> :
        rate \in {10, 20}, loud \in Chains(0, MaxK) \cup Chains(1, MaxK)}

\* three words over 1800 frames at 10 * w frames per second last 180 / w
\* seconds: w words per minute; a silence of g frames lasts g / (10 * w)
\* seconds: 9 * w frames are 0.9 s, 15 * w frames are 1.5 s
RateInputs ==
    UNION {{<<Clip(1800, 10 * w, 1, loud), <<"a", " ", "b", " ", "A">> >> :
               loud \in {<< >>, <<(<<0, 1>>)>>} \cup
                        {<<(<<0, 1>>), (<<1 + g, 1800>>)>> :
                            g \in {9 * w - 1, 9 * w, 9 * w + 1, 15 * w} \cap (1..1798)}}
           : w \in 1..MaxWpm}

\* request 1 after lines 58-81 went through with this upload and this transcript
InitMetrics ==
    \E in \in TextInputs \cup PauseInputs \cup RateInputs :
        /\ r = 1
        /\ recognizers = 1
        /\ pc = [q \in Reqs |-> IF q = 1 THEN "count" ELSE "new"]
        /\ files = [q \in Reqs |-> IF q = 1 THEN in[1] ELSE NoFile]
        /\ loc = [q \in Reqs |->
                    IF q = 1
                    THEN Assign(Assign(Assign(NoLocals, "audio_file", in[1]),
                                       "wav_io", in[1]), "transcript", in[2])
                    ELSE NoLocals]
        /\ used = [q \in Reqs |-> IF q = 1 THEN 1 ELSE 0]
        /\ calls = [q \in Reqs |-> IF q = 1 THEN <<"decode", "transcribe">> ELSE << >>]
        /\ raised = [q \in Reqs |-> "none"]
        /\ resp = [q \in Reqs |-> NoResponse]

NextMetrics ==
    \E q \in Reqs :
        \/ CountWords(q)
        \/ ReadWave(q)
        \/ Pauses(q)
        \/ Lexical(q)
        \/ ClassifyRisk(q)
        \/ Respond(q)
        \/ AfterRequest(q)

SpecMetrics == InitMetrics /\ [][NextMetrics]_vars

\* ---------------------------------------------------------------- claims
Classified(q) == pc[q] = "respond"
Answered(q) == pc[q] \in {"after_request", "sent"}
ResultFields ==
    {"speakingRate", "pauseDuration", "lexicalRichness", "riskLevel", "suggestion",
     "transcript"}

\* C1: with an average pause of at most 0.9 s the tier follows the rate alone:
\* High Risk below 100 words per minute, Medium Risk from 100 to 139, Low Risk
\* from 140 on (so 99 is High, 100 and 139 are Medium, 140 is Low).
C1_RateTiers ==
    \A q \in Reqs :
        Classified(q) /\ ~FracGt(loc[q].avg_pause_duration, 9, 10) =>
            LET w == loc[q].words_per_minute
                tier == loc[q].risk
            IN  /\ w < 100 => tier = "High Risk"
                /\ 100 <= w /\ w < 140 => tier = "Medium Risk"
                /\ w >= 140 => tier = "Low Risk"
                /\ w = 99 => tier = "High Risk"
                /\ w \in {100, 139} => tier = "Medium Risk"
                /\ w = 140 => tier = "Low Risk"

\* a request classified at exactly 140 words per minute and exactly 0.9 s
C1_Witness ==
    \E q \in Reqs :
        /\ Classified(q)
        /\ loc[q].words_per_minute = 140
        /\ FracEq(loc[q].avg_pause_duration, 9, 10)
        /\ loc[q].risk = "Low Risk"

\* C2: the pause rule acts only on a tier the rate rules left at Low Risk: below
\* 140 words per minute tier and suggestion depend on the rate alone, whatever
\* the pause (95 with 1.5 s stays High Risk); from 140 on the tier is Medium
\* Risk exactly when the average pause exceeds 0.9 s.
C2_PauseRuleOnlyOnLow ==
    \A q \in Reqs :
        Classified(q) =>
            LET w == loc[q].words_per_minute
                long == FracGt(loc[q].avg_pause_duration, 9, 10)
                out == <<loc[q].risk, loc[q].risk_suggestion>>
            IN  /\ w < 100 => out = <<"High Risk", SuggestHigh>>
                /\ 100 <= w /\ w < 140 => out = <<"Medium Risk", SuggestMedium>>
                /\ w >= 140 => (loc[q].risk = "Medium Risk" <=> long)
                /\ w >= 140 => loc[q].risk \in {"Low Risk", "Medium Risk"}

\* a request classified at 95 words per minute with an average pause of 1.5 s
C2_Witness ==
    \E q \in Reqs :
        /\ Classified(q)
        /\ loc[q].words_per_minute = 95
        /\ FracEq(loc[q].avg_pause_duration, 15, 10)
        /\ loc[q].risk = "High Risk"

\* the silence between stretch i and stretch i+1 of a clip, in frames
GapAt(iv, i) == iv[i + 1][1] - iv[i][2]

RECURSIVE SumGaps(_, _)
SumGaps(iv, S) ==
    IF S = {} THEN 0
    ELSE LET i == CHOOSE j \in S : TRUE
         IN  GapAt(iv, i) + SumGaps(iv, S \ {i})

HasPause(q) == "avg_pause_duration" \in DOMAIN loc[q]

\* C6: for the k non-silent stretches of a clip the average pause is the mean
\* of those of the k-1 gaps between consecutive stretches that last more than
\* 0.1 s, and 0.0 when no gap does (so 0.0 for k = 0 and k = 1, and 1.2 for
\* three stretches 0.05 s and 1.2 s apart).
C6_MeanOfKeptGaps ==
    \A q \in Reqs :
        HasPause(q) =>
            LET iv == files[q].loud
                rate == files[q].rate
                k == Len(iv)
                kept == {i \in 1..(k - 1) : GapAt(iv, i) * 10 > rate}
                avg == loc[q].avg_pause_duration
            IN  /\ kept = {} => FracEq(avg, 0, 1)
                /\ kept # {} =>
                      avg[1] * Cardinality(kept) * rate = SumGaps(iv, kept) * avg[2]
                /\ k <= 1 => FracEq(avg, 0, 1)
                /\ (k = 3 /\ GapAt(iv, 1) * 20 = rate /\ GapAt(iv, 2) * 10 = 12 * rate)
                      => FracEq(avg, 12, 10)

\* three stretches 0.05 s and 1.2 s apart, averaged to 1.2 s
C6_Witness ==
    \E q \in Reqs :
        /\ HasPause(q)
        /\ Len(files[q].loud) = 3
        /\ GapAt(files[q].loud, 1) * 20 = files[q].rate
        /\ GapAt(files[q].loud, 2) * 10 = 12 * files[q].rate
        /\ FracEq(loc[q].avg_pause_duration, 12, 10)

\* C10: a request classified with no word or with no duration has 0 words per
\* minute (and a lexical richness of 0 without words) and is High Risk
\* whatever its average pause; a success response saying 0 WPM is High Risk.
C10_ZeroRateIsHigh ==
    \A q \in Reqs :
        /\ Classified(q) /\ (loc[q].word_count = 0 \/ loc[q].total_duration[1] = 0) =>
              /\ loc[q].words_per_minute = 0
              /\ loc[q].word_count = 0 => loc[q].lexical_richness.tenths = 0
              /\ loc[q].risk = "High Risk"
        /\ (resp[q].status = 200 /\ resp[q].body.speakingRate = <<0, " WPM">>) =>
              resp[q].body.riskLevel = "High Risk"

\* a clip of no duration with words in its transcript, answered 0 WPM, High Risk
C10_Witness ==
    \E q \in Reqs :
        /\ pc[q] = "sent"
        /\ resp[q].status = 200
        /\ files[q].frames = 0
        /\ Len(split(resp[q].body.transcript)) > 0
        /\ resp[q].body.speakingRate = <<0, " WPM">>
        /\ resp[q].body.riskLevel = "High Risk"

\* C5: a response is the full result (the six fields, no error) or an error
\* alone, whichever step failed; it never mixes the two or carries a part.
C5_AllOrError ==
    \A q \in Reqs :
        resp[q].status # 0 =>
            /\ DOMAIN resp[q].body \in {ResultFields, {"error"}}
            /\ (DOMAIN resp[q].body = ResultFields) <=> (raised[q] = "none" /\ files[q].kind = "audio")
            /\ (DOMAIN resp[q].body = ResultFields) <=> (resp[q].status = 200)

\* a request whose silence detection failed, after its transcription succeeded
C5_Witness ==
    \E q \in Reqs :
        /\ pc[q] = "sent"
        /\ raised[q] = "Exception"
        /\ Count(calls[q], "segment") = 1
        /\ DOMAIN resp[q].body = {"error"}

\* C7: every response that is sent, success or failure, carries the three
\* cross-origin headers.
C7_CorsOnEveryResponse ==
    \A q \in Reqs :
        pc[q] = "sent" =>
            /\ <<"Access-Control-Allow-Origin", "*">> \in resp[q].headers
            /\ <<"Access-Control-Allow-Headers", "Content-Type,Authorization">> \in resp[q].headers
            /\ \E h \in resp[q].headers : h[1] = "Access-Control-Allow-Methods"

\* a failure response that was sent
C7_Witness ==
    \E q \in Reqs :
        /\ pc[q] = "sent"
        /\ resp[q].status = 500
        /\ raised[q] = "RequestError"
        /\ <<"Access-Control-Allow-Origin", "*">> \in resp[q].headers

\* C8: a request without an 'audio' part is answered 400 with an error alone
\* and starts no pipeline step.
C8_MissingAudioRejected ==
    \A q \in Reqs :
        files[q].kind = "absent" =>
            /\ calls[q] = << >>
            /\ Answered(q)
            /\ resp[q].status = 400
            /\ DOMAIN resp[q].body = {"error"}
            /\ used[q] = 0

\* a request without an 'audio' part whose answer was sent
C8_Witness ==
    \E q \in Reqs :
        /\ files[q].kind = "absent"
        /\ pc[q] = "sent"
        /\ resp[q].status = 400

\* C9: a request decodes at most once and transcribes at most once; after a
\* service error or unintelligible audio it starts nothing more and answers
\* 500 for the service error, 400 for the unintelligible audio.
C9_NoRetry ==
    \A q \in Reqs :
        /\ Count(calls[q], "decode") <= 1
        /\ Count(calls[q], "transcribe") <= 1
        /\ raised[q] \in {"RequestError", "UnknownValueError"} =>
              /\ Answered(q)
              /\ calls[q] = <<"decode", "transcribe">>
              /\ DOMAIN resp[q].body = {"error"}
              /\ resp[q].status = IF raised[q] = "RequestError" THEN 500 ELSE 400

\* a request answered 500 after its one transcription met a service error
C9_Witness ==
    \E q \in Reqs :
        /\ raised[q] = "RequestError"
        /\ pc[q] = "sent"
        /\ resp[q].status = 500
        /\ Count(calls[q], "transcribe") = 1

\* C3: an upload that is present but cannot be decoded (empty or unparseable)
\* is answered with a client fault (400), never with a server fault (500).
C3_DecodeErrorIsClientFault ==
    \A q \in Reqs :
        (files[q].kind \in {"empty", "garbage"} /\ Answered(q)) =>
            resp[q].status = 400

\* C4: the Recognizer is constructed exactly once, on the first use by a
\* request rather than when the process starts, and every request transcribes
\* with that one instance.
C4_LoadedOnceOnFirstUse ==
    /\ recognizers <= 1
    /\ recognizers > 0 => \E q \in Reqs : Count(calls[q], "transcribe") > 0
    /\ \A q \in Reqs : Count(calls[q], "transcribe") > 0 => (used[q] = r /\ r # 0)

====
